---- MODULE Spec2Model ----
(***************************************************************************)
(* State-machine model of the ORC writer's column data tree               *)
(* (src/src/writer/data/{struct_,list,decimal64}.rs) driven by the file   *)
(* writer's write_batch / flush / finish cycle.                            *)
(*                                                                         *)
(* Schema of the modelled tree (column ids in depth-first preorder):      *)
(*   0  Struct  (root)                                                     *)
(*   1    Decimal64   field "e"  (test_writer.rs:16)                       *)
(*   2    List        field "f"  (test_writer.rs:17)                       *)
(*   3      Decimal64 element of the list                                  *)
(*                                                                         *)
(* An encoder (BooleanRLE, CompressionStream, SignedIntRLEv1,              *)
(* UnsignedIntRLEv1) is the sequence of values buffered in it; write       *)
(* appends, finish(out) writes the buffer to the sink and leaves the       *)
(* encoder empty.  One buffered value counts as one byte.                  *)
(***************************************************************************)
EXTENDS Integers, Sequences, FiniteSets, TLC

\* ---------------------------------------------------------------- bounds
\* most values a column may receive between two flushes
MaxRows == 2
\* most stripes flushed by write_batch in one run
MaxStripes == 2
\* most write calls on column handles in one run
MaxOps == 6
\* largest list length passed to ListData::write
MaxLen == 1
\* row_index_stride is drawn from 0..MaxStride
MaxStride == 2
\* the small stripe_target_size (forces a flush after a batch)
SmallTarget == 2
\* the large stripe_target_size (never reached: one stripe, flushed by finish)
LargeTarget == 50
\* most nodes of a schema tree
MaxNodes == 5
\* most update calls per BinaryStatistics value
MaxUpdates == 2
\* longest byte string passed to BinaryStatistics::update
MaxBytes == 2
\* precision p of the modelled Decimal64 columns: the envelope is |v| < 10^p
Precision == 5
\* a faulty sink may fail at any of the first MaxFail + 1 writes of a flush
MaxFail == 8

\* ------------------------------------------------------ program constants
\* Schema::Decimal(15, 2): the scale of the Decimal64 columns
Scale == 2

RootId == 0
DecId == 1
ListId == 2
ElemId == 3
DecIds == {DecId, ElemId}
NoPanic == -1

\* unscaled decimal values the caller writes
Values == {4}
None == [some |-> FALSE, v |-> 0]
Some(y) == [some |-> TRUE, v |-> y]
OptionsOf(vs) == {None} \cup {Some(y) : y \in vs}
Options == OptionsOf(Values)

RECURSIVE Pow10(_)
Pow10(p) == IF p = 0 THEN 1 ELSE 10 * Pow10(p - 1)

\* whether an unscaled value fits a Decimal64 column of precision p
InEnvelope(v, p) == -Pow10(p) < v /\ v < Pow10(p)

\* an unscaled value outside the envelope of the modelled columns
OutOfEnvelope == Pow10(Precision)

\* fail_in of a sink that never fails
NeverFails == -1

VARIABLES
  config,     \* [row_index_stride, stripe_target_size]
  root,       \* StructData, column 0
  dec,        \* Decimal64Data of columns 1 and 3
  list,       \* ListData, column 2
  writer,     \* file writer: stripe row counter, cumulative rows, stripes, footer
  pc,         \* "open" | "panicked" | "io_error" | "finished"
  panic_col,  \* column id named by the panic message, NoPanic if none
  hist,       \* what the caller wrote to each column since the last flush
  last,       \* the last operation: its name, batch size, whether it flushed
  ops,        \* so far: write calls on column handles, rows committed by write_batch
  sink,       \* the output sink: position, writes left before it fails, and
              \* the record of the last write_data_streams call
  caller,     \* [values]: the unscaled decimal values the caller writes
  unit        \* the value under check in the function-level specifications

vars == <<config, root, dec, list, writer, pc, panic_col, hist, last, ops,
          sink, caller, unit>>

\* ------------------------------------------------------------- statistics
\* StructStatistics: fields num_rows (struct_.rs:51,101) and num_present
StructStatistics_new == [num_rows |-> 0, num_present |-> 0]

StructStatistics_update(s, present) ==
  [num_rows |-> s.num_rows + 1,
   num_present |-> s.num_present + (IF present THEN 1 ELSE 0)]

StructStatistics_merge(s, rhs) ==
  [num_rows |-> s.num_rows + rhs.num_rows,
   num_present |-> s.num_present + rhs.num_present]

\* Decimal64Statistics / GenericStatistics: value and present counters
BaseStatistics_new == [num_values |-> 0, num_present |-> 0]

Decimal64Statistics_update(s, x) ==
  [num_values |-> s.num_values + 1,
   num_present |-> s.num_present + (IF x.some THEN 1 ELSE 0)]

GenericStatistics_update(s) ==
  [num_values |-> s.num_values + 1, num_present |-> s.num_present + 1]

GenericStatistics_update_null(s) ==
  [num_values |-> s.num_values + 1, num_present |-> s.num_present]

\* has_null: some value counted by the statistics was a null
BaseStatistics_has_null(s) == s.num_values # s.num_present

\* --------------------------------------------------------------- encoders
Encoder_new == <<>>
Encoder_write(e, x) == Append(e, x)
Encoder_estimated_size(e) == Len(e)
\* bytes that finish(out) writes to the sink
Encoder_finish_len(e) == Len(e)

StreamInfo(kind, column_id, length) ==
  [kind |-> kind, column_id |-> column_id, length |-> length]

\* ------------------------------------------------------------------- sink
\* pos: bytes accepted so far; faulty: whether writes may fail; fail_in:
\* writes accepted before the one that fails; failed: a write has failed.
\* Of the last write_data_streams call: start, the position it began at;
\* marks, the position after each write the sink accepted; accepted, the
\* number of writes accepted when one failed; infos, the StreamInfo vector
\* the call left when it failed (that of a completed call is in the stripe
\* descriptor)
Sink_new(faulty) ==
  [pos |-> 0, faulty |-> faulty, fail_in |-> NeverFails, failed |-> FALSE,
   start |-> 0, marks |-> <<>>, accepted |-> 0, infos |-> <<>>]

\* the writes of a flush at which the sink may fail
Sink_failures(out) ==
  {NeverFails} \cup (IF out.faulty THEN 0..MaxFail ELSE {})

\* the sink takes the n bytes of one finished encoder, or returns an error
\* and takes nothing; the error is not repeated on a later write
Sink_write(out, n) ==
  IF out.fail_in = 0
  THEN [ok |-> FALSE,
        out |-> [out EXCEPT !.fail_in = NeverFails, !.failed = TRUE,
                            !.accepted = Len(out.marks)]]
  ELSE [ok |-> TRUE,
        out |-> [out EXCEPT !.pos = @ + n,
                            !.fail_in = IF @ > 0 THEN @ - 1 ELSE @,
                            !.marks = Append(@, out.pos + n)]]

\* the state of a write_data_streams call: the sink, which fails at write
\* fail_in of the call, the StreamInfo vector stream_infos_out, and whether
\* a finish has returned an error
Streams_begin(out, fail_in) ==
  [out |-> [out EXCEPT !.start = out.pos, !.marks = <<>>, !.fail_in = fail_in],
   infos |-> <<>>, err |-> FALSE]

\* mutant: the length is taken from the start of the sink
Stream_length_from_origin(start_pos, end_pos) == end_pos

\* the length reported for a stream: out.pos() - start_pos
Stream_length(start_pos, end_pos) == end_pos - start_pos

\* mutant: the result of finish is dropped and the stream reported anyway
Stream_finish_unchecked(w, kind, column_id, e) ==
  LET s == Sink_write(w.out, Encoder_finish_len(e))
  IN [out |-> s.out,
      infos |-> Append(w.infos, StreamInfo(kind, column_id,
                                           Stream_length(w.out.pos, s.out.pos))),
      err |-> FALSE]

\* let start = out.pos(); e.finish(out)?; stream_infos_out.push(StreamInfo{..}):
\* after an error nothing more is done (the ? has returned from the call)
Stream_finish(w, kind, column_id, e) ==
  IF w.err THEN w
  ELSE LET s == Sink_write(w.out, Encoder_finish_len(e))
       IN IF ~s.ok
          THEN [w EXCEPT !.out = s.out, !.err = TRUE]
          ELSE [out |-> s.out,
                infos |-> Append(w.infos, StreamInfo(kind, column_id,
                                                     Stream_length(w.out.pos, s.out.pos))),
                err |-> FALSE]

\* ---------------------------------------------------------- Decimal64Data
Decimal64Data_new ==
  [present |-> Encoder_new, data |-> Encoder_new,
   secondary_scale |-> Encoder_new, stripe_stats |-> BaseStatistics_new]

Decimal64Data_write(d, x) ==
  LET enc == IF x.some
             THEN [d EXCEPT !.present = Encoder_write(@, TRUE),
                            !.data = Encoder_write(@, x.v),
                            !.secondary_scale = Encoder_write(@, Scale)]
             ELSE [d EXCEPT !.present = Encoder_write(@, FALSE)]
  IN [enc EXCEPT !.stripe_stats = Decimal64Statistics_update(@, x)]

\* mutant: the PRESENT stream is written whether or not a null was seen
Decimal64Data_emits_present_always(d) == TRUE

\* whether write_data_streams finishes and reports the PRESENT stream
Decimal64Data_emits_present(d) == BaseStatistics_has_null(d.stripe_stats)

\* mutant: SECONDARY is written before DATA
Decimal64Data_stream_order_swapped == <<"SECONDARY", "DATA">>

\* the kinds of the two unconditional streams, in the order they are written
Decimal64Data_stream_order == <<"DATA", "SECONDARY">>

Decimal64Data_encoder(d, kind) ==
  IF kind = "DATA" THEN d.data ELSE d.secondary_scale

\* result: the node after the encoders that were finished are empty, and the
\* call state w (sink, StreamInfo vector, error)
Decimal64Data_write_data_streams(d, cid, w) ==
  LET hasp == Decimal64Data_emits_present(d)
      w1 == IF hasp THEN Stream_finish(w, "PRESENT", cid, d.present) ELSE w
      k1 == Decimal64Data_stream_order[1]
      k2 == Decimal64Data_stream_order[2]
      w2 == Stream_finish(w1, k1, cid, Decimal64Data_encoder(d, k1))
      w3 == Stream_finish(w2, k2, cid, Decimal64Data_encoder(d, k2))
      wd == IF k1 = "DATA" THEN w2 ELSE w3
      ws == IF k1 = "DATA" THEN w3 ELSE w2
  IN [node |-> [d EXCEPT !.present = IF hasp /\ ~w1.err THEN Encoder_new ELSE @,
                         !.data = IF ~wd.err THEN Encoder_new ELSE @,
                         !.secondary_scale = IF ~ws.err THEN Encoder_new ELSE @],
      w |-> w3]

Decimal64Data_statistics(d) == <<d.stripe_stats>>

Decimal64Data_estimated_size(d) ==
  Encoder_estimated_size(d.present) + Encoder_estimated_size(d.data)

\* the column id the panic names, NoPanic when the count matches
Decimal64Data_verify_row_count(d, cid, expected_row_count) ==
  IF d.stripe_stats.num_values # expected_row_count THEN cid ELSE NoPanic

Decimal64Data_reset(d) == [d EXCEPT !.stripe_stats = BaseStatistics_new]

\* --------------------------------------------------------------- ListData
ListData_new ==
  [present |-> Encoder_new, lengths |-> Encoder_new,
   stripe_stats |-> BaseStatistics_new, num_child_values |-> 0]

ListData_write(l, len) ==
  [l EXCEPT !.present = Encoder_write(@, TRUE),
            !.lengths = Encoder_write(@, len),
            !.num_child_values = @ + len,
            !.stripe_stats = GenericStatistics_update(@)]

ListData_write_null(l) ==
  [l EXCEPT !.present = Encoder_write(@, FALSE),
            !.stripe_stats = GenericStatistics_update_null(@)]

ListData_emits_present(l) == BaseStatistics_has_null(l.stripe_stats)

RECURSIVE SumLengths(_)
SumLengths(infos) ==
  IF infos = <<>> THEN 0 ELSE infos[1].length + SumLengths(Tail(infos))

\* the List's own streams come first, then the child's, each call returning
\* at the first error
ListData_write_data_streams(l, child, cid, w) ==
  LET hasp == ListData_emits_present(l)
      w1 == IF hasp THEN Stream_finish(w, "PRESENT", cid, l.present) ELSE w
      w2 == Stream_finish(w1, "LENGTH", cid, l.lengths)
      c == Decimal64Data_write_data_streams(child, cid + 1, w2)
  IN [node |-> [l EXCEPT !.present = IF hasp /\ ~w1.err THEN Encoder_new ELSE @,
                         !.lengths = IF ~w2.err THEN Encoder_new ELSE @],
      child |-> c.node,
      w |-> c.w]

ListData_statistics(l, child) ==
  <<l.stripe_stats>> \o Decimal64Data_statistics(child)

\* mutant: the List forwards its number of non-null rows
ListData_child_expected_rows(l) == l.stripe_stats.num_present

\* the count the List requires of its child
ListData_child_expected(l) == l.num_child_values

ListData_verify_row_count(l, child, cid, expected_row_count) ==
  IF l.stripe_stats.num_values # expected_row_count THEN cid
  ELSE Decimal64Data_verify_row_count(child, cid + 1, ListData_child_expected(l))

ListData_estimated_size(l, child) ==
  Encoder_estimated_size(l.present) + Encoder_estimated_size(l.lengths)
    + Decimal64Data_estimated_size(child)

\* list.rs defines no reset; the stripe assembler's "reset every node (drop
\* accumulated stats, clear encoders)" returns the node to its constructed state
ListData_reset(l) == ListData_new

\* ------------------------------------------------------------- StructData
StructData_new ==
  [present |-> Encoder_new,
   current_row_group_stats |-> StructStatistics_new,
   row_group_stats |-> <<>>,
   splice_stats |-> StructStatistics_new]

\* mutant: the row group is closed one row late
StructData_row_group_full_late(num_rows, row_index_stride) ==
  num_rows > row_index_stride

\* whether the open row group is closed after a write
StructData_row_group_full(num_rows, row_index_stride) ==
  num_rows >= row_index_stride

StructData_write(r, present, row_index_stride) ==
  LET cur == StructStatistics_update(r.current_row_group_stats, present)
      w == [r EXCEPT !.present = Encoder_write(@, present),
                     !.current_row_group_stats = cur]
  IN IF StructData_row_group_full(cur.num_rows, row_index_stride)
     THEN [w EXCEPT !.splice_stats = StructStatistics_merge(@, cur),
                    !.row_group_stats = Append(@, cur),
                    !.current_row_group_stats = StructStatistics_new]
     ELSE w

\* index phase: no bytes are written and no StreamInfo is appended
StructData_write_index_streams(r) == [len |-> 0, infos |-> <<>>]

\* the Struct's PRESENT is finished and reported unconditionally, then the
\* children in field order; d is the function from DecIds to the Decimal64
\* nodes, l the List node
StructData_write_data_streams(r, d, l, w) ==
  LET w1 == Stream_finish(w, "PRESENT", RootId, r.present)
      c1 == Decimal64Data_write_data_streams(d[DecId], DecId, w1)
      c2 == ListData_write_data_streams(l, d[ElemId], ListId, c1.w)
  IN [root |-> [r EXCEPT !.present = IF ~w1.err THEN Encoder_new ELSE @],
      dec |-> [c \in DecIds |-> IF c = DecId THEN c1.node ELSE c2.child],
      list |-> c2.node,
      w |-> c2.w]

\* the statistics the Struct reports for itself
StructData_own_statistics(r) ==
  [num_values |-> r.splice_stats.num_rows,
   num_present |-> r.splice_stats.num_present]

StructData_statistics(r, d, l) ==
  <<StructData_own_statistics(r)>>
    \o Decimal64Data_statistics(d[DecId])
    \o ListData_statistics(l, d[ElemId])

StructData_rows_written(r) ==
  r.splice_stats.num_rows + r.current_row_group_stats.num_rows

\* the expected count the Struct passes on to each child
StructData_child_expected(r, row_count) == row_count

StructData_verify_row_count(r, d, l, row_count, batch_size) ==
  IF StructData_rows_written(r) # row_count THEN RootId
  ELSE LET e == StructData_child_expected(r, row_count)
           p1 == Decimal64Data_verify_row_count(d[DecId], DecId, e)
       IN IF p1 # NoPanic THEN p1
          ELSE ListData_verify_row_count(l, d[ElemId], ListId, e)

StructData_estimated_size(r, d, l) ==
  Decimal64Data_estimated_size(d[DecId]) + ListData_estimated_size(l, d[ElemId])

\* reset of the Struct's own fields; reset of the children follows in Tree_reset
StructData_reset(r) ==
  [r EXCEPT !.splice_stats = StructStatistics_new,
            !.current_row_group_stats = StructStatistics_new,
            !.row_group_stats = <<>>]

Tree_reset(r, d, l) ==
  [root |-> StructData_reset(r),
   dec |-> [c \in DecIds |-> Decimal64Data_reset(d[c])],
   list |-> ListData_reset(l)]

\* ------------------------------------------------------------ file writer
Hist_new ==
  [rows_true |-> 0, rows_false |-> 0,
   dec |-> [c \in DecIds |-> [some |-> 0, none |-> 0]],
   list_len |-> 0, list_null |-> 0, sum_len |-> 0]

Writer_new == [stripe_rows |-> 0, row_count |-> 0, stripes |-> <<>>, footer_rows |-> 0]

\* the stripe is closed when the accumulated size reaches the target
Stripe_is_full(r, d, l, stripe_target_size) ==
  StructData_estimated_size(r, d, l) >= stripe_target_size

\* the row count recorded in the stripe descriptor
Stripe_row_count(w) == w.stripe_rows

\* mutant: the flushed rows stay in the stripe row counter
Stripe_rows_kept(w) == w.stripe_rows

\* the stripe row counter after a flush
Stripe_rows_after_flush(w) == 0

\* flush_stripe after the data phase, whose call state is ws: statistics,
\* stripe descriptor, reset of every node. "written" records what the caller
\* had written to the stripe's columns. An error of the sink ends the flush:
\* no descriptor, no reset.
Writer_end_stripe(w, r, d, l, h, ws) ==
  LET st == StructData_statistics(r, d, l)
      rs == Tree_reset(ws.root, ws.dec, ws.list)
      ix == StructData_write_index_streams(r)
      desc == [row_count |-> Stripe_row_count(w),
               data_length |-> ws.w.out.pos - ws.w.out.start,
               index_length |-> ix.len, index_streams |-> ix.infos,
               streams |-> ws.w.infos, statistics |-> st, written |-> h]
      so == [ws.w.out EXCEPT !.fail_in = NeverFails,
                             !.infos = IF ws.w.err THEN ws.w.infos ELSE @]
  IN IF ws.w.err
     THEN [err |-> TRUE, writer |-> w, sink |-> so,
           root |-> ws.root, dec |-> ws.dec, list |-> ws.list]
     ELSE [err |-> FALSE,
           writer |-> [w EXCEPT !.stripes = Append(@, desc),
                                !.stripe_rows = Stripe_rows_after_flush(w)],
           sink |-> so,
           root |-> rs.root, dec |-> rs.dec, list |-> rs.list]

\* flush_stripe: the data phase on the sink, which fails at write fail_in of
\* the call, then the rest of the flush
Writer_flush_stripe(w, r, d, l, h, out, fail_in) ==
  Writer_end_stripe(w, r, d, l, h,
    StructData_write_data_streams(r, d, l, Streams_begin(out, fail_in)))

\* the row count written to the file footer
Writer_footer_rows(w) == w.row_count

Configs ==
  [row_index_stride : 0..MaxStride, stripe_target_size : {SmallTarget, LargeTarget}]

\* a new writer with a configuration from cfgs, on a sink that is faulty or
\* not, and a caller writing decimal values from vs
Writer_init(cfgs, faulty, vs) ==
  /\ config \in cfgs
  /\ sink = Sink_new(faulty)
  /\ caller = [values |-> vs]
  /\ root = StructData_new
  /\ dec = [c \in DecIds |-> Decimal64Data_new]
  /\ list = ListData_new
  /\ writer = Writer_new
  /\ pc = "open"
  /\ panic_col = NoPanic
  /\ hist = Hist_new
  /\ last = [op |-> "new", n |-> 0, flushed |-> FALSE]
  /\ ops = [writes |-> 0, rows |-> 0]

Unit_none == [kind |-> "writer"]

Init == Writer_init(Configs, FALSE, Values) /\ unit = Unit_none

\* the data tree of the writer: the root Struct, its Decimal64 nodes, the List
Tree(r, d, l) == [root |-> r, dec |-> d, list |-> l]

\* mutant: a null row of the Struct also writes a null into each child
Tree_struct_write_nulls_children(t, present, row_index_stride) ==
  IF present
  THEN [t EXCEPT !.root = StructData_write(@, present, row_index_stride)]
  ELSE [t EXCEPT !.root = StructData_write(@, present, row_index_stride),
                 !.dec[DecId] = Decimal64Data_write(@, None),
                 !.list = ListData_write_null(@)]

\* root.write(present): only the Struct's own fields change
Tree_struct_write(t, present, row_index_stride) ==
  [t EXCEPT !.root = StructData_write(@, present, row_index_stride)]

\* write(x) on the Decimal64 node of column c: only that node changes
Tree_decimal64_write(t, c, x) ==
  [t EXCEPT !.dec[c] = Decimal64Data_write(@, x)]

\* list.write(len): only the List's own fields change, not its child
Tree_list_write(t, len) == [t EXCEPT !.list = ListData_write(@, len)]

\* list.write_null(): only the List's own fields change
Tree_list_write_null(t) == [t EXCEPT !.list = ListData_write_null(@)]

Wrote ==
  /\ ops.writes < MaxOps
  /\ ops' = [ops EXCEPT !.writes = @ + 1]
  /\ last' = [op |-> "write", n |-> 0, flushed |-> FALSE]

\* root.write(present)
StructWrite(present) ==
  /\ pc = "open"
  /\ hist.rows_true + hist.rows_false < MaxRows
  /\ LET t == Tree_struct_write(Tree(root, dec, list), present, config.row_index_stride)
     IN root' = t.root /\ dec' = t.dec /\ list' = t.list
  /\ hist' = IF present THEN [hist EXCEPT !.rows_true = @ + 1]
                        ELSE [hist EXCEPT !.rows_false = @ + 1]
  /\ Wrote
  /\ UNCHANGED <<config, writer, pc, panic_col, sink, caller, unit>>

\* root.child(i).unwrap_decimal64().write(x), or the list element's write(x)
Decimal64Write(c, x) ==
  /\ pc = "open"
  /\ x.some => x.v \in caller.values
  /\ hist.dec[c].some + hist.dec[c].none < MaxRows
  /\ LET t == Tree_decimal64_write(Tree(root, dec, list), c, x)
     IN root' = t.root /\ dec' = t.dec /\ list' = t.list
  /\ hist' = IF x.some THEN [hist EXCEPT !.dec[c].some = @ + 1]
                       ELSE [hist EXCEPT !.dec[c].none = @ + 1]
  /\ Wrote
  /\ UNCHANGED <<config, writer, pc, panic_col, sink, caller, unit>>

\* list.write(len)
ListWrite(len) ==
  /\ pc = "open"
  /\ hist.list_len + hist.list_null < MaxRows
  /\ LET t == Tree_list_write(Tree(root, dec, list), len)
     IN root' = t.root /\ dec' = t.dec /\ list' = t.list
  /\ hist' = [hist EXCEPT !.list_len = @ + 1, !.sum_len = @ + len]
  /\ Wrote
  /\ UNCHANGED <<config, writer, pc, panic_col, sink, caller, unit>>

\* list.write_null()
ListWriteNull ==
  /\ pc = "open"
  /\ hist.list_len + hist.list_null < MaxRows
  /\ LET t == Tree_list_write_null(Tree(root, dec, list))
     IN root' = t.root /\ dec' = t.dec /\ list' = t.list
  /\ hist' = [hist EXCEPT !.list_null = @ + 1]
  /\ Wrote
  /\ UNCHANGED <<config, writer, pc, panic_col, sink, caller, unit>>

\* writer.write_batch(n): commit n rows, verify_row_count, flush when full
WriteBatch(n) ==
  /\ pc = "open"
  /\ writer.stripe_rows + n <= MaxRows
  /\ Len(writer.stripes) < MaxStripes
  /\ LET w == [writer EXCEPT !.stripe_rows = @ + n, !.row_count = @ + n]
         p == StructData_verify_row_count(root, dec, list, w.stripe_rows, n)
     IN IF p # NoPanic
        THEN /\ pc' = "panicked"
             /\ panic_col' = p
             /\ writer' = w
             /\ last' = [op |-> "write_batch", n |-> n, flushed |-> FALSE]
             /\ UNCHANGED <<config, root, dec, list, hist, ops, sink>>
        ELSE IF Stripe_is_full(root, dec, list, config.stripe_target_size)
        THEN \E k \in Sink_failures(sink) :
             \E f \in {Writer_flush_stripe(w, root, dec, list, hist, sink, k)} :
                /\ writer' = f.writer
                /\ root' = f.root
                /\ dec' = f.dec
                /\ list' = f.list
                /\ sink' = f.sink
                /\ hist' = IF f.err THEN hist ELSE Hist_new
                /\ pc' = IF f.err THEN "io_error" ELSE pc
                /\ last' = [op |-> "write_batch", n |-> n, flushed |-> ~f.err]
                /\ ops' = [ops EXCEPT !.rows = @ + n]
                /\ UNCHANGED <<config, panic_col>>
        ELSE /\ writer' = w
             /\ last' = [op |-> "write_batch", n |-> n, flushed |-> FALSE]
             /\ ops' = [ops EXCEPT !.rows = @ + n]
             /\ UNCHANGED <<config, root, dec, list, pc, panic_col, hist, sink>>
  /\ UNCHANGED <<caller, unit>>

\* writer.finish(): flush the open stripe, write the file footer
Finish ==
  /\ pc = "open"
  /\ IF writer.stripe_rows > 0
     THEN \E k \in Sink_failures(sink) :
          \E f \in {Writer_flush_stripe(writer, root, dec, list, hist, sink, k)} :
             /\ writer' = IF f.err THEN f.writer
                          ELSE [f.writer EXCEPT !.footer_rows = Writer_footer_rows(f.writer)]
             /\ root' = f.root
             /\ dec' = f.dec
             /\ list' = f.list
             /\ sink' = f.sink
             /\ hist' = IF f.err THEN hist ELSE Hist_new
             /\ pc' = IF f.err THEN "io_error" ELSE "finished"
             /\ last' = [op |-> "finish", n |-> 0, flushed |-> ~f.err]
     ELSE /\ writer' = [writer EXCEPT !.footer_rows = Writer_footer_rows(writer)]
          /\ pc' = "finished"
          /\ last' = [op |-> "finish", n |-> 0, flushed |-> FALSE]
          /\ UNCHANGED <<root, dec, list, hist, sink>>
  /\ UNCHANGED <<config, panic_col, ops, caller, unit>>

Next ==
  \/ \E present \in BOOLEAN : StructWrite(present)
  \/ \E c \in DecIds, x \in OptionsOf(Values \cup {OutOfEnvelope}) : Decimal64Write(c, x)
  \/ \E len \in 0..MaxLen : ListWrite(len)
  \/ ListWriteNull
  \/ \E n \in 0..MaxRows : WriteBatch(n)
  \/ Finish

Spec == Init /\ [][Next]_vars

\* the writer with the longest row groups and a stripe target that no batch
\* reaches: one stripe
InitBatch ==
  /\ Writer_init({c \in Configs : c.row_index_stride = MaxStride
                                  /\ c.stripe_target_size = LargeTarget},
                 FALSE, Values)
  /\ unit = Unit_none

SpecBatch == InitBatch /\ [][Next]_vars

\* the writer with a caller that also writes a value outside the envelope
InitRange ==
  /\ Writer_init(Configs, FALSE, Values \cup {OutOfEnvelope})
  /\ unit = Unit_none

SpecRange == InitRange /\ [][Next]_vars

\* the writer, with a row group closed at every row, on a sink whose writes
\* may fail
InitSink ==
  /\ Writer_init({c \in Configs : c.row_index_stride = 1}, TRUE, Values)
  /\ unit = Unit_none

SpecSink == InitSink /\ [][Next]_vars

writer_vars == <<config, root, dec, list, writer, pc, panic_col, hist, last, ops,
                 sink, caller>>

\* an idle writer, for the specifications of single functions
Writer_idle ==
  Writer_init({c \in Configs : c.row_index_stride = MaxStride
                                /\ c.stripe_target_size = LargeTarget},
              FALSE, Values)

\* ------------------------------------------------- construction of a tree
\* a schema: its type and its fields (Struct) or element (List)
Schema_decimal == [t |-> "Decimal", kids |-> <<>>]
Schema_list(child) == [t |-> "List", kids |-> <<child>>]
Schema_struct(fields) == [t |-> "Struct", kids |-> fields]

RECURSIVE TreesOf(_), ForestsOf(_)
\* the schemas of exactly n nodes
TreesOf(n) ==
  IF n = 0 THEN {}
  ELSE (IF n = 1 THEN {Schema_decimal} ELSE {})
         \cup {Schema_list(c) : c \in TreesOf(n - 1)}
         \cup {Schema_struct(f) : f \in ForestsOf(n - 1)}
\* the sequences of schemas of n nodes in all
ForestsOf(n) ==
  IF n = 0 THEN {<<>>}
  ELSE UNION {{<<t>> \o f : t \in TreesOf(k), f \in ForestsOf(n - k)} : k \in 1..n}

Schemas == UNION {TreesOf(n) : n \in 1..MaxNodes}

\* mutant: the counter is not advanced before the children are built
Data_next_column_id_kept(column_id) == column_id

\* *column_id += 1
Data_next_column_id(column_id) == column_id + 1

RECURSIVE Data_new(_, _), Data_new_children(_, _)
\* the children are built in field order, each from the counter the previous
\* one left; result: the nodes and the counter
Data_new_children(fields, column_id) ==
  IF fields = <<>> THEN [nodes |-> <<>>, column_id |-> column_id]
  ELSE LET c == Data_new(fields[1], column_id)
           r == Data_new_children(Tail(fields), c.column_id)
       IN [nodes |-> <<c.node>> \o r.nodes, column_id |-> r.column_id]

\* new(schema, config, column_id) of StructData, ListData and Decimal64Data:
\* the node takes the counter's value, advances it, then builds its children
Data_new(schema, column_id) ==
  LET ch == Data_new_children(schema.kids, Data_next_column_id(column_id))
  IN [node |-> [t |-> schema.t, column_id |-> column_id, children |-> ch.nodes],
      column_id |-> ch.column_id]

\* a result vector of column_encodings or statistics, and whether no
\* assert_eq!(out.len(), column_id) has failed
Column_out == [vec |-> <<>>, ok |-> TRUE, done |-> FALSE]

\* Struct and List assert out.len() == column_id before they push; a failed
\* assertion ends the call
Column_push(out, node, entry) ==
  IF ~out.ok THEN out
  ELSE IF node.t # "Decimal" /\ Len(out.vec) # node.column_id
       THEN [out EXCEPT !.ok = FALSE]
       ELSE [out EXCEPT !.vec = Append(@, entry)]

RECURSIVE Data_column_encodings(_, _), Children_column_encodings(_, _)
Children_column_encodings(nodes, out) ==
  IF nodes = <<>> THEN out
  ELSE Children_column_encodings(Tail(nodes), Data_column_encodings(nodes[1], out))

\* the node pushes a DIRECT encoding, then its children push theirs; "of" is
\* the column the entry was pushed by
Data_column_encodings(node, out) ==
  Children_column_encodings(node.children,
    Column_push(out, node, [kind |-> "DIRECT", of |-> node.column_id]))

RECURSIVE Data_statistics(_, _), Children_statistics(_, _)
Children_statistics(nodes, out) ==
  IF nodes = <<>> THEN out
  ELSE Children_statistics(Tail(nodes), Data_statistics(nodes[1], out))

\* the node pushes its statistics, then its children push theirs
Data_statistics(node, out) ==
  Children_statistics(node.children,
    Column_push(out, node, [kind |-> node.t, of |-> node.column_id]))

InitSchema ==
  /\ Writer_idle
  /\ unit \in {[kind |-> "schema", schema |-> sc, built |-> FALSE,
                 tree |-> [t |-> sc.t, column_id |-> 0, children |-> <<>>],
                 column_id |-> 0,
                 encodings |-> Column_out, statistics |-> Column_out] : sc \in Schemas}

\* Data::new(schema, config, &mut column_id) with column_id = 0
DataNew ==
  /\ ~unit.built
  /\ LET n == Data_new(unit.schema, 0)
     IN unit' = [unit EXCEPT !.built = TRUE, !.tree = n.node, !.column_id = n.column_id]
  /\ UNCHANGED writer_vars

\* root.column_encodings(&mut vec![])
ColumnEncodings ==
  /\ unit.built /\ ~unit.encodings.done
  /\ unit' = [unit EXCEPT !.encodings =
                 [Data_column_encodings(unit.tree, Column_out) EXCEPT !.done = TRUE]]
  /\ UNCHANGED writer_vars

\* root.statistics(&mut vec![])
Statistics ==
  /\ unit.built /\ ~unit.statistics.done
  /\ unit' = [unit EXCEPT !.statistics =
                 [Data_statistics(unit.tree, Column_out) EXCEPT !.done = TRUE]]
  /\ UNCHANGED writer_vars

NextSchema == DataNew \/ ColumnEncodings \/ Statistics

SpecSchema == InitSchema /\ [][NextSchema]_vars

\* ------------------------------------------------------- BinaryStatistics
BinaryStatistics_new == [num_values |-> 0, num_present |-> 0, sum_lengths |-> 0]

BinaryStatistics_update(st, x) ==
  [num_values |-> st.num_values + 1,
   num_present |-> st.num_present + (IF x.some THEN 1 ELSE 0),
   sum_lengths |-> st.sum_lengths + (IF x.some THEN Len(x.v) ELSE 0)]

\* mutant: the byte lengths of the merged statistics are dropped
BinaryStatistics_merge_without_lengths(st, o) ==
  [num_values |-> st.num_values + o.num_values,
   num_present |-> st.num_present + o.num_present,
   sum_lengths |-> st.sum_lengths]

BinaryStatistics_merge(st, o) ==
  [num_values |-> st.num_values + o.num_values,
   num_present |-> st.num_present + o.num_present,
   sum_lengths |-> st.sum_lengths + o.sum_lengths]

\* the values passed to update: None, or Some of a byte string
ByteStrings == UNION {[1..n -> {0, 255}] : n \in 0..MaxBytes}
BinaryInputs ==
  {[some |-> FALSE, v |-> <<>>]} \cup {[some |-> TRUE, v |-> b] : b \in ByteStrings}

\* three sequences of values A, B, C, each with its own statistics
Parts == 1..3

\* stats[k]: the statistics updated with sequence k; seen[k]: the calls made
\* with sequence k; run[k]: one statistics value updated with sequences 1..k
\* one after the other; part: the sequence being passed
InitBinary ==
  /\ Writer_idle
  /\ unit = [kind |-> "binary", part |-> 1,
             stats |-> [k \in Parts |-> BinaryStatistics_new],
             seen |-> [k \in Parts |-> [updates |-> 0, somes |-> 0, bytes |-> 0]],
             run |-> [k \in Parts |-> BinaryStatistics_new],
             merged |-> FALSE, result |-> BinaryStatistics_new]

\* stats.update(x) on the statistics of the current sequence
BinaryUpdate(x) ==
  /\ ~unit.merged
  /\ unit.seen[unit.part].updates < MaxUpdates
  /\ unit' = [unit EXCEPT
       !.stats[unit.part] = BinaryStatistics_update(@, x),
       !.seen[unit.part] = [updates |-> @.updates + 1,
                            somes |-> @.somes + (IF x.some THEN 1 ELSE 0),
                            bytes |-> @.bytes + (IF x.some THEN Len(x.v) ELSE 0)],
       !.run = [k \in Parts |-> IF k >= unit.part
                                THEN BinaryStatistics_update(unit.run[k], x)
                                ELSE unit.run[k]]]
  /\ UNCHANGED writer_vars

\* the caller goes on to the next sequence
BinaryNextPart ==
  /\ ~unit.merged
  /\ unit.part + 1 \in Parts
  /\ unit' = [unit EXCEPT !.part = @ + 1]
  /\ UNCHANGED writer_vars

\* a.merge(&b); a.merge(&c)
BinaryMerge ==
  /\ ~unit.merged
  /\ unit' = [unit EXCEPT
       !.merged = TRUE,
       !.result = BinaryStatistics_merge(
                    BinaryStatistics_merge(unit.stats[1], unit.stats[2]), unit.stats[3])]
  /\ UNCHANGED writer_vars

NextBinary ==
  \/ \E x \in BinaryInputs : BinaryUpdate(x)
  \/ BinaryNextPart
  \/ BinaryMerge

SpecBinary == InitBinary /\ [][NextBinary]_vars

\* ------------------------------------------------------------ observations
Stripes == writer.stripes
NumStripes == Len(writer.stripes)
LastStripe == writer.stripes[Len(writer.stripes)]

HasStream(st, c, kind) ==
  \E i \in 1..Len(st.streams) :
    st.streams[i].column_id = c /\ st.streams[i].kind = kind

\* values the caller wrote to column c, as counted in a history h
NullsWritten(h, c) == IF c = ListId THEN h.list_null ELSE h.dec[c].none
ValuesWritten(h, c) ==
  IF c = RootId THEN h.rows_true + h.rows_false
  ELSE IF c = ListId THEN h.list_len + h.list_null
  ELSE h.dec[c].some + h.dec[c].none

\* the count the specification requires of column c: the stripe's rows of the
\* root, one value per present row of a Struct's child, the sum of the list
\* lengths of a List's child
Required(h, rows, c) ==
  IF c = RootId THEN rows
  ELSE IF c = ElemId THEN h.sum_len
  ELSE h.rows_true

Columns == {RootId, DecId, ListId, ElemId}
Mismatch(h, rows, c) == ValuesWritten(h, c) # Required(h, rows, c)

\* what the last write_batch's verify_row_count saw: the history and the
\* stripe row counter (moved into the stripe descriptor when the batch flushed)
SeenHist == IF last.flushed THEN LastStripe.written ELSE hist
SeenRows == IF last.flushed THEN LastStripe.row_count ELSE writer.stripe_rows
AfterBatch == last.op = "write_batch"

\* ------------------------------------------------------------------ claims

C2_StructPresentIffNullRow ==
  \A i \in 1..NumStripes :
    HasStream(Stripes[i], RootId, "PRESENT") <=> Stripes[i].written.rows_false > 0

\* C3: for a Decimal64 column, the number of PRESENT bits equals num_values and
\* the numbers of DATA and SECONDARY entries both equal num_present, after any
\* sequence of writes since the last reset.
C3_Decimal64StreamCounts ==
  \A c \in DecIds :
    /\ Len(dec[c].present) = dec[c].stripe_stats.num_values
    /\ Len(dec[c].data) = dec[c].stripe_stats.num_present
    /\ Len(dec[c].secondary_scale) = dec[c].stripe_stats.num_present

\* C4: verify_row_count never aborts on a child of the Struct that received
\* exactly one value per row written with write(true) and none for the rows
\* written with write(false).
C4_StructChildrenVerifiedAgainstNumPresent ==
  \A c \in {DecId, ListId} :
    (pc = "panicked" /\ panic_col = c) => ValuesWritten(hist, c) # hist.rows_true

C6_MismatchAlwaysDetected ==
  (AfterBatch /\ \E c \in Columns : Mismatch(SeenHist, SeenRows, c)) =>
    /\ pc = "panicked"
    /\ Mismatch(SeenHist, SeenRows, panic_col)
    /\ \A c \in Columns : c < panic_col => ~Mismatch(SeenHist, SeenRows, c)

\* C7: a write_batch after which every column holds exactly its required
\* number of values never aborts, in the first stripe or after a flush.
C7_CorrectUsageNeverAborts ==
  (AfterBatch /\ \A c \in Columns : ~Mismatch(SeenHist, SeenRows, c)) =>
    pc # "panicked"

\* C8: at the flush of a stripe whose columns hold their required counts,
\* statistics(out)[c].num_values is the number of values written to c in the
\* stripe; the root's is the stripe row count (for every row count and
\* stride) and a Struct child's is the Struct's num_present.
C8_StatisticsAtFlush ==
  \A i \in 1..NumStripes :
    LET st == Stripes[i] IN
     (\A c \in Columns : ~Mismatch(st.written, st.row_count, c)) =>
      /\ st.statistics[RootId + 1].num_values = st.row_count
      /\ \A c \in Columns :
           st.statistics[c + 1].num_values = ValuesWritten(st.written, c)
      /\ \A c \in {DecId, ListId} :
           st.statistics[c + 1].num_values = st.statistics[RootId + 1].num_present

RECURSIVE SumRowCounts(_)
SumRowCounts(ss) ==
  IF ss = <<>> THEN 0 ELSE ss[1].row_count + SumRowCounts(Tail(ss))

\* C9: after finish(), the footer row count equals the sum of the stripe row
\* counts and the sum of the batch sizes committed.
C9_FooterRowCount ==
  pc = "finished" =>
    /\ writer.footer_rows = SumRowCounts(Stripes)
    /\ writer.footer_rows = ops.rows

\* C9 witness: a finished file of two stripes with rows in each.
C9_Witness ==
  /\ pc = "finished"
  /\ NumStripes >= 2
  /\ \A i \in 1..NumStripes : Stripes[i].row_count > 0

KindRank(kind) ==
  CASE kind = "PRESENT" -> 1
    [] kind = "DATA" -> 2
    [] kind = "LENGTH" -> 3
    [] kind = "SECONDARY" -> 4

ColumnKinds(st, c) ==
  {st.streams[i].kind : i \in {j \in 1..Len(st.streams) : st.streams[j].column_id = c}}

\* C10: the StreamInfo list of a stripe is in column-id preorder, kinds within
\* a column in the order PRESENT, DATA, LENGTH, SECONDARY (so no pair twice);
\* Decimal64: [PRESENT] DATA SECONDARY, List: [PRESENT] LENGTH, Struct first.
C10_StreamOrder ==
  \A s \in 1..NumStripes :
    LET st == Stripes[s] IN
      /\ \A i, j \in 1..Len(st.streams) :
           i < j =>
             \/ st.streams[i].column_id < st.streams[j].column_id
             \/ /\ st.streams[i].column_id = st.streams[j].column_id
                /\ KindRank(st.streams[i].kind) < KindRank(st.streams[j].kind)
      /\ st.streams[1].column_id = RootId
      /\ \A c \in DecIds :
           ColumnKinds(st, c) \ {"PRESENT"} = {"DATA", "SECONDARY"}
      /\ ColumnKinds(st, ListId) \ {"PRESENT"} = {"LENGTH"}

\* C10 witness: a batch flushed a stripe in which both Decimal64 columns wrote
\* PRESENT, DATA, SECONDARY and the List wrote LENGTH.
C10_Witness ==
  /\ AfterBatch /\ last.flushed
  /\ \A c \in DecIds : HasStream(LastStripe, c, "PRESENT")
  /\ HasStream(LastStripe, ListId, "LENGTH")
  /\ Len(LastStripe.streams) = 8

\* C12: a stripe flush returns every node to its constructed state: no
\* encoder or counter keeps data of the flushed stripe and estimated_size is 0.
C12_FlushResetsEveryNode ==
  last.flushed =>
    /\ root = StructData_new
    /\ \A c \in DecIds : dec[c] = Decimal64Data_new
    /\ list = ListData_new
    /\ StructData_estimated_size(root, dec, list) = 0

\* bytes buffered in every encoder a node owns
Decimal64Data_buffered(d) == Len(d.present) + Len(d.data) + Len(d.secondary_scale)
ListData_buffered(l) == Len(l.present) + Len(l.lengths)
StructData_buffered(r) == Len(r.present)

\* C13: estimated_size of a node is the sum of the sizes of every encoder it
\* owns plus its children's: Decimal64 PRESENT + DATA + SECONDARY, List
\* PRESENT + LENGTH + child, Struct its own PRESENT + children.
C13_EstimatedSizeCountsEveryEncoder ==
  /\ \A c \in DecIds : Decimal64Data_estimated_size(dec[c]) = Decimal64Data_buffered(dec[c])
  /\ ListData_estimated_size(list, dec[ElemId])
       = ListData_buffered(list) + Decimal64Data_buffered(dec[ElemId])
  /\ StructData_estimated_size(root, dec, list)
       = StructData_buffered(root) + Decimal64Data_buffered(dec[DecId])
           + ListData_buffered(list) + Decimal64Data_buffered(dec[ElemId])

\* C14: with row_index_stride = 0 no write closes a row group or appends to
\* row_group_stats, no index bytes or StreamInfo are emitted, and the rows
\* written are accounted as with a positive stride.
C14_StrideZeroDisablesRowGroups ==
  config.row_index_stride = 0 =>
    /\ root.row_group_stats = <<>>
    /\ StructData_rows_written(root) = ValuesWritten(hist, RootId)
    /\ \A i \in 1..NumStripes :
         Stripes[i].index_length = 0 /\ Stripes[i].index_streams = <<>>

RECURSIVE MergeAll(_)
MergeAll(ss) ==
  IF ss = <<>> THEN [num_rows |-> 0, num_present |-> 0]
  ELSE [num_rows |-> ss[1].num_rows + MergeAll(Tail(ss)).num_rows,
        num_present |-> ss[1].num_present + MergeAll(Tail(ss)).num_present]

\* C19: with row_index_stride s >= 1, splice_stats is the merge of the entries
\* of row_group_stats, every entry covers exactly s rows, the open row group
\* has fewer than s rows, and splice + open rows = writes since the last reset.
C19_RowGroupAccounting ==
  config.row_index_stride >= 1 =>
    /\ root.splice_stats = MergeAll(root.row_group_stats)
    /\ \A i \in 1..Len(root.row_group_stats) :
         root.row_group_stats[i].num_rows = config.row_index_stride
    /\ root.current_row_group_stats.num_rows < config.row_index_stride
    /\ root.splice_stats.num_rows + root.current_row_group_stats.num_rows
         = ValuesWritten(hist, RootId)

\* C19 witness: with stride 2 a row group was closed by the second write
\* after a stripe had been flushed and the Struct reset.
C19_Witness ==
  /\ config.row_index_stride = 2
  /\ NumStripes >= 1
  /\ Len(root.row_group_stats) = 1
  /\ root.splice_stats.num_rows = 2

\* the write calls a caller can make on the tree, each on one column
ColumnWrites ==
  {[col |-> RootId, kind |-> "struct", present |-> b] : b \in BOOLEAN}
    \cup {[col |-> c, kind |-> "decimal64", x |-> x] : c \in DecIds, x \in Options}
    \cup {[col |-> ListId, kind |-> "list", len |-> n] : n \in 0..MaxLen}
    \cup {[col |-> ListId, kind |-> "list_null"]}

\* whether the column of write w can take one more value in this batch
CanWrite(w) == ValuesWritten(hist, w.col) < MaxRows

Tree_apply(t, w) ==
  CASE w.kind = "struct" -> Tree_struct_write(t, w.present, config.row_index_stride)
    [] w.kind = "decimal64" -> Tree_decimal64_write(t, w.col, w.x)
    [] w.kind = "list" -> Tree_list_write(t, w.len)
    [] w.kind = "list_null" -> Tree_list_write_null(t)

Tree_verify(t, n) ==
  StructData_verify_row_count(t.root, t.dec, t.list, writer.stripe_rows + n, n)

\* C15: writes to different columns commute: from every state of the tree,
\* two writes the caller can make on different columns, applied in either
\* order, leave every node in the same state and verify_row_count with the
\* same outcome; the StreamInfo list of the flush is computed from the nodes.
C15_ColumnWritesCommute ==
  pc = "open" =>
    \A a \in ColumnWrites, b \in ColumnWrites :
      (a.col < b.col /\ CanWrite(a) /\ CanWrite(b)) =>
        LET ab == Tree_apply(Tree_apply(Tree(root, dec, list), a), b)
            ba == Tree_apply(Tree_apply(Tree(root, dec, list), b), a)
        IN /\ ab = ba
           /\ \A n \in 0..MaxRows : Tree_verify(ab, n) = Tree_verify(ba, n)

\* C15 witness: a batch in which all four columns were written, with a null
\* and non-null values, in some interleaving, and which passed verify_row_count.
C15_Witness ==
  /\ AfterBatch /\ pc = "open" /\ ~last.flushed
  /\ root.present = <<TRUE>>
  /\ dec[DecId].present = <<FALSE>>
  /\ Len(list.lengths) = 1 /\ list.num_child_values = 1
  /\ Len(dec[ElemId].data) = 1

RECURSIVE SchemaSize(_), ForestSize(_)
SchemaSize(sc) == 1 + ForestSize(sc.kids)
ForestSize(f) == IF f = <<>> THEN 0 ELSE SchemaSize(f[1]) + ForestSize(Tail(f))

RECURSIVE ColumnIds(_), ColumnIdsOf(_)
\* the column ids of a tree's nodes in depth-first preorder
ColumnIds(node) == <<node.column_id>> \o ColumnIdsOf(node.children)
ColumnIdsOf(nodes) ==
  IF nodes = <<>> THEN <<>> ELSE ColumnIds(nodes[1]) \o ColumnIdsOf(Tail(nodes))

\* a vector with one entry per column, entry i pushed by column i
OnePerColumn(out, n) ==
  /\ out.ok
  /\ Len(out.vec) = n
  /\ \A i \in 1..n : out.vec[i].of = i - 1

\* C11: construction numbers the nodes of any schema tree 0, 1, 2, ... in
\* depth-first preorder; column_encodings and statistics on the root with an
\* empty vector give one entry per column, entry i for column i, no
\* out.len() == column_id assertion fails, and every encoding is DIRECT.
C11_ColumnIdsPreorder ==
  LET n == SchemaSize(unit.schema)
  IN /\ unit.built =>
          /\ Len(ColumnIds(unit.tree)) = n
          /\ \A i \in 1..n : ColumnIds(unit.tree)[i] = i - 1
          /\ unit.column_id = n
     /\ unit.encodings.done =>
          /\ OnePerColumn(unit.encodings, n)
          /\ \A i \in 1..n : unit.encodings.vec[i].kind = "DIRECT"
     /\ unit.statistics.done => OnePerColumn(unit.statistics, n)

\* C11 witness: Struct { List(Decimal), Decimal } was built and both vectors
\* collected: the second field's id follows the list's subtree.
C11_Witness ==
  /\ unit.schema = Schema_struct(<<Schema_list(Schema_decimal), Schema_decimal>>)
  /\ unit.built /\ unit.encodings.done /\ unit.statistics.done
  /\ unit.tree.children[2].column_id = 3

\* C16: a Decimal64 value outside the precision envelope is rejected: it is
\* never appended to the DATA stream of its column.
C16_OutOfEnvelopeRejected ==
  \A c \in DecIds : \A i \in 1..Len(dec[c].data) :
    InEnvelope(dec[c].data[i], Precision)

\* the StreamInfo vector of the last write_data_streams call
LastInfos == IF pc = "io_error" THEN sink.infos ELSE LastStripe.streams

\* the bytes the sink advanced during the i-th write of the last call
Advance(i) == sink.marks[i] - (IF i = 1 THEN sink.start ELSE sink.marks[i - 1])

\* C17: a sink error during write_data_streams is returned at the first
\* failing stream: the failed write is the call's last, the StreamInfo vector
\* holds exactly the streams written before it, and no byte follows.
C17_SinkErrorStopsDataPhase ==
  /\ sink.failed => pc = "io_error"
  /\ pc = "io_error" =>
       /\ sink.failed
       /\ Len(sink.marks) = sink.accepted
       /\ Len(LastInfos) = sink.accepted
       /\ \A i \in 1..Len(LastInfos) : LastInfos[i].length = Advance(i)
       /\ sink.pos = sink.start + SumLengths(LastInfos)

\* C17 witness: the sink failed in the second stripe, after that stripe's
\* first two streams had been written.
C17_Witness ==
  /\ pc = "io_error"
  /\ NumStripes = 1
  /\ Len(sink.infos) = 2
  /\ sink.pos > sink.start

\* C18: each StreamInfo.length is the number of bytes the sink advanced while
\* the stream was written, the lengths add up to the advance of the whole
\* call, and the streams' offsets are the prefix sums of the lengths.
C18_StreamLengthsAreSinkAdvance ==
  (last.flushed \/ pc = "io_error") =>
    /\ Len(sink.marks) = Len(LastInfos)
    /\ \A i \in 1..Len(LastInfos) :
         /\ LastInfos[i].length = Advance(i)
         /\ sink.marks[i] = sink.start + SumLengths(SubSeq(LastInfos, 1, i))
    /\ SumLengths(LastInfos) = sink.pos - sink.start
    /\ last.flushed => LastStripe.data_length = sink.pos - sink.start

\* C18 witness: a second stripe was written behind the first, with two
\* streams of different non-zero lengths.
C18_Witness ==
  /\ last.flushed
  /\ NumStripes = 2
  /\ sink.start > 0
  /\ \E i, j \in 1..Len(LastInfos) :
       0 < LastInfos[i].length /\ LastInfos[i].length < LastInfos[j].length

BinarySummary(st, seen) ==
  /\ st.num_present <= st.num_values
  /\ st.num_values = seen.updates
  /\ st.num_present = seen.somes
  /\ st.sum_lengths = seen.bytes

\* C20: a BinaryStatistics value counts the update calls, the Some values and
\* their bytes; merging statistics of B into statistics of A gives the
\* statistics of A followed by B, and merge is commutative and associative.
C20_BinaryStatisticsAdditive ==
  LET a == unit.stats[1]
      b == unit.stats[2]
      c == unit.stats[3]
  IN /\ \A k \in Parts : BinarySummary(unit.stats[k], unit.seen[k])
     /\ BinaryStatistics_merge(a, b) = unit.run[2]
     /\ BinaryStatistics_merge(a, b) = BinaryStatistics_merge(b, a)
     /\ BinaryStatistics_merge(BinaryStatistics_merge(a, b), c) = unit.run[3]
     /\ BinaryStatistics_merge(a, BinaryStatistics_merge(b, c)) = unit.run[3]
     /\ unit.merged => unit.result = unit.run[3]

\* C20 witness: three sequences with None, empty and non-empty byte strings
\* were passed and their statistics merged.
C20_Witness ==
  /\ unit.merged
  /\ unit.stats[1].num_values = 2 /\ unit.stats[1].num_present = 1
  /\ unit.stats[2].num_present = 2 /\ unit.stats[2].sum_lengths = 1
  /\ unit.stats[3].sum_lengths = 2 * MaxBytes

====
